---- MODULE Spec2Model ----
(***************************************************************************)
(* The clusterctl component processing pipeline (package repository,       *)
(* newComponents): variable substitution, target-namespace normalisation,  *)
(* RBAC isolation, watch-namespace configuration and labelling of the      *)
(* objects of a provider's component YAML.                                 *)
(*                                                                         *)
(* Texts, names and arguments are strings; TLC evaluates Len, \o, SubSeq,  *)
(* Head and Tail on strings, so the regular expressions and the string     *)
(* functions of the Go code are computed character by character.           *)
(***************************************************************************)
EXTENDS Integers, Sequences, FiniteSets, TLC

VARIABLES
    provider,           \* provider.Name(), argument of newComponents
    rawyaml,            \* rawyaml argument: the text read from the repository
    config,             \* configVariablesClient: name -> value, NotFound when unset
    manifest,           \* the documents the YAML text denotes (input of the parser)
    override,           \* targetNamespace argument as passed by the caller
    watchingNamespace,  \* watchingNamespace argument
    pc,                 \* position inside newComponents
    variables,          \* local: result of inspectVariables
    yaml,               \* local: result of replaceVariables
    objs,               \* local: the list of objects
    targetNamespace,    \* local: targetNamespace after defaulting
    defaultWatchingNamespace, \* local: result of inspectWatchNamespace
    err,                \* the error newComponents returns, NoError when none
    components,         \* the *components newComponents returns
    parsed,             \* history: objs as returned by the parser
    before,             \* history: objs on entry of the stage that ran last
    run,                \* the number of the call of newComponents: 1 or 2
    firstCall           \* history: the *components the first call returned

vars == <<provider, rawyaml, config, manifest, override, watchingNamespace, pc,
          variables, yaml, objs, targetNamespace, defaultWatchingNamespace,
          err, components, parsed, before, run, firstCall>>

Nil == "<nil>"
NotFound == "<not found>"
NoError == [kind |-> "none", names |-> <<>>]

(***************************************************************************)
(* Strings                                                                 *)
(***************************************************************************)
CharAt(s, i) == SubSeq(s, i, i)

\* strings.HasPrefix
HasPrefix(s, prefix) ==
    Len(s) >= Len(prefix) /\ SubSeq(s, 1, Len(prefix)) = prefix

\* strings.TrimPrefix
TrimPrefix(s, prefix) ==
    IF HasPrefix(s, prefix) THEN SubSeq(s, Len(prefix) + 1, Len(s)) ELSE s

\* the bytes of the class [A-Z0-9_], in byte order
NameAlphabet == "0123456789ABCDEFGHIJKLMNOPQRSTUVWXYZ_"
LowerAlphabet == "abcdefghijklmnopqrstuvwxyz"

NameChars == {CharAt(NameAlphabet, i) : i \in 1..Len(NameAlphabet)}
\* unicode.IsLetter, unicode.IsDigit or '_' (on the ASCII range)
WordChars == NameChars \cup {CharAt(LowerAlphabet, i) : i \in 1..Len(LowerAlphabet)}
\* the class \s of RE2
SpaceChars == {" ", "\t", "\n", "\r", "\f"}

\* position of a byte of [A-Z0-9_] in byte order
Ord(c) == CHOOSE i \in 1..Len(NameAlphabet) : CharAt(NameAlphabet, i) = c

\* a < b for strings over [A-Z0-9_], as Go compares strings (bytewise)
RECURSIVE StrLess(_, _)
StrLess(a, b) ==
    IF Len(b) = 0 THEN FALSE
    ELSE IF Len(a) = 0 THEN TRUE
    ELSE IF Head(a) = Head(b) THEN StrLess(Tail(a), Tail(b))
    ELSE Ord(Head(a)) < Ord(Head(b))

\* sort.Strings on a list without duplicates, given as the set of its elements
RECURSIVE SortStrings(_)
SortStrings(S) ==
    IF S = {} THEN <<>>
    ELSE LET m == CHOOSE x \in S : \A y \in S \ {x} : StrLess(x, y)
         IN  <<m>> \o SortStrings(S \ {m})

(***************************************************************************)
(* Regular expressions.  A match is [from, to, name]: the matched text is  *)
(* s[from..to-1] (1-based), name the text of the first submatch.           *)
(***************************************************************************)
NoMatch == [from |-> 0, to |-> 0, name |-> ""]

\* the first position >= i of s that holds no byte of class
RECURSIVE SkipClass(_, _, _)
SkipClass(s, i, class) ==
    IF i <= Len(s) /\ CharAt(s, i) \in class THEN SkipClass(s, i + 1, class) ELSE i

\* variableRegEx, \${\s*([A-Z0-9_]+)\s*}, anchored at position i of s
MatchVariableAt(s, i) ==
    IF ~(i + 1 <= Len(s) /\ CharAt(s, i) = "$" /\ CharAt(s, i + 1) = "{")
    THEN NoMatch
    ELSE LET n0 == SkipClass(s, i + 2, SpaceChars)
             n1 == SkipClass(s, n0, NameChars)
             e  == SkipClass(s, n1, SpaceChars)
         IN  IF n1 > n0 /\ e <= Len(s) /\ CharAt(s, e) = "}"
             THEN [from |-> i, to |-> e + 1, name |-> SubSeq(s, n0, n1 - 1)]
             ELSE NoMatch

\* regexp.MustCompile(`\$\{\s*` + key + `\s*\}`), anchored at position i of s
\* (key is made of bytes of [A-Z0-9_], none of them a metacharacter)
MatchKeyAt(s, i, key) ==
    IF ~(i + 1 <= Len(s) /\ CharAt(s, i) = "$" /\ CharAt(s, i + 1) = "{")
    THEN NoMatch
    ELSE LET n0 == SkipClass(s, i + 2, SpaceChars)
             n1 == n0 + Len(key)
             e  == SkipClass(s, n1, SpaceChars)
         IN  IF n1 - 1 <= Len(s) /\ SubSeq(s, n0, n1 - 1) = key
                /\ e <= Len(s) /\ CharAt(s, e) = "}"
             THEN [from |-> i, to |-> e + 1, name |-> key]
             ELSE NoMatch

\* FindAllStringSubmatch(s, -1) of variableRegEx: the leftmost non-overlapping
\* matches from position i on, as the list of their first submatches
RECURSIVE FindAllVariables(_, _)
FindAllVariables(s, i) ==
    IF i > Len(s) THEN <<>>
    ELSE LET m == MatchVariableAt(s, i)
         IN  IF m = NoMatch THEN FindAllVariables(s, i + 1)
             ELSE <<m.name>> \o FindAllVariables(s, m.to)

\* whether variableRegEx matches anywhere in s
HasPlaceholder(s) == FindAllVariables(s, 1) # <<>>

\* regexp's extract: the reference at the head of a template, after its "$".
\* [ok, name, rest]; ok is FALSE for a malformed reference
Extract(str) ==
    IF str = "" THEN [ok |-> FALSE, name |-> "", rest |-> str]
    ELSE LET brace == Head(str) = "{"
             body  == IF brace THEN Tail(str) ELSE str
             i     == SkipClass(body, 1, WordChars) - 1
         IN  IF i = 0 THEN [ok |-> FALSE, name |-> "", rest |-> str]
             ELSE IF brace /\ (i >= Len(body) \/ CharAt(body, i + 1) # "}")
             THEN [ok |-> FALSE, name |-> "", rest |-> str]
             ELSE [ok |-> TRUE, name |-> SubSeq(body, 1, i),
                   rest |-> SubSeq(body, (IF brace THEN i + 2 ELSE i + 1), Len(body))]

\* the submatch a reference name of a template stands for: the expressions
\* built by replaceVariables have no capturing group, so that only 0 (the
\* whole match) stands for some text
Submatch(name, matched) == IF name = "0" THEN matched ELSE ""

\* regexp's expand: the text a replacement template stands for
RECURSIVE Expand(_, _)
Expand(template, matched) ==
    LET d == SkipClass(template, 1, {CharAt(template, j) : j \in 1..Len(template)} \ {"$"})
    IN  IF d > Len(template) THEN template
        ELSE LET lit   == SubSeq(template, 1, d - 1)
                 after == SubSeq(template, d + 1, Len(template))
             IN  IF after # "" /\ Head(after) = "$"
                 THEN lit \o "$" \o Expand(Tail(after), matched)
                 ELSE LET x == Extract(after)
                      IN  IF ~x.ok THEN lit \o "$" \o Expand(after, matched)
                          ELSE lit \o Submatch(x.name, matched) \o Expand(x.rest, matched)

\* exp.ReplaceAllString(s, repl) for the expression of key, from position i on
RECURSIVE ReplaceAllString(_, _, _, _)
ReplaceAllString(s, i, key, repl) ==
    IF i > Len(s) THEN ""
    ELSE LET m == MatchKeyAt(s, i, key)
         IN  IF m = NoMatch
             THEN CharAt(s, i) \o ReplaceAllString(s, i + 1, key, repl)
             ELSE Expand(repl, SubSeq(s, m.from, m.to - 1))
                  \o ReplaceAllString(s, m.to, key, repl)

(***************************************************************************)
(* Variables                                                               *)
(***************************************************************************)
Range(f) == {f[i] : i \in DOMAIN f}

inspectVariables(data) == SortStrings(Range(FindAllVariables(data, 1)))

\* configVariablesClient.Get
Get(cfg, key) == IF key \in DOMAIN cfg THEN cfg[key] ELSE NotFound

\* replaceLoop with "break" in the place of "continue": it stops at the first
\* variable without a value
RECURSIVE replaceLoopBreak(_, _, _, _, _)
replaceLoopBreak(tmp, missing, list, k, cfg) ==
    IF k > Len(list) THEN [tmp |-> tmp, missingVariables |-> missing]
    ELSE LET key == list[k]
             val == Get(cfg, key)
         IN  IF val = NotFound
             THEN [tmp |-> tmp, missingVariables |-> Append(missing, key)]
             ELSE replaceLoopBreak(ReplaceAllString(tmp, 1, key, val), missing, list,
                                   k + 1, cfg)

\* the loop of replaceVariables over variables[k..]: [tmp, missingVariables]
RECURSIVE replaceLoop(_, _, _, _, _)
replaceLoop(tmp, missing, list, k, cfg) ==
    IF k > Len(list) THEN [tmp |-> tmp, missingVariables |-> missing]
    ELSE LET key == list[k]
             val == Get(cfg, key)
         IN  IF val = NotFound
             THEN replaceLoop(tmp, Append(missing, key), list, k + 1, cfg)
             ELSE replaceLoop(ReplaceAllString(tmp, 1, key, val), missing, list, k + 1, cfg)

\* replaceVariables: [yaml, err]
replaceVariables(text, list, cfg) ==
    LET r == replaceLoop(text, <<>>, list, 1, cfg)
    IN  IF Len(r.missingVariables) > 0
        THEN [yaml |-> Nil,
              err  |-> [kind |-> "missing variables", names |-> r.missingVariables]]
        ELSE [yaml |-> r.tmp, err |-> NoError]

(***************************************************************************)
(* Objects.  An object (unstructured.Unstructured) is a record of the      *)
(* fields the pipeline reads or writes:                                    *)
(*   kind, name, namespace, labels   metadata                              *)
(*   roleRef                         [kind, name] of a binding             *)
(*   subjects                        the namespace of each subject         *)
(*   containers                      [name, args] of each container of a   *)
(*                                   Deployment's pod template             *)
(*   wellFormed                      whether scheme.Scheme.Convert turns   *)
(*                                   the object into the typed object of   *)
(*                                   its kind                              *)
(***************************************************************************)
namespaceKind == "Namespace"
clusterRoleKind == "ClusterRole"
clusterRoleBindingKind == "ClusterRoleBinding"
roleBindingKind == "RoleBinding"
namespaceArgPrefix == "--namespace="
deploymentKind == "Deployment"
controllerContainerName == "manager"

ClusterctlLabelName == "clusterctl.cluster.x-k8s.io"
ClusterctlProviderLabelName == "clusterctl.cluster.x-k8s.io/provider"

NoLabels == [k \in {} |-> ""]
NoRoleRef == [kind |-> "", name |-> ""]

Obj(kind, name, namespace) ==
    [kind |-> kind, name |-> name, namespace |-> namespace, labels |-> NoLabels,
     roleRef |-> NoRoleRef, subjects |-> <<>>, containers |-> <<>>,
     wellFormed |-> TRUE]

\* inspectTargetNamespace over objs[i..]: [namespace, err]
RECURSIVE inspectTargetNamespaceLoop(_, _, _)
inspectTargetNamespaceLoop(list, i, namespace) ==
    IF i > Len(list) THEN [namespace |-> namespace, err |-> NoError]
    ELSE IF list[i].kind = namespaceKind
         THEN IF namespace # ""
              THEN [namespace |-> "",
                    err |-> [kind |-> "more than one Namespace", names |-> <<>>]]
              ELSE inspectTargetNamespaceLoop(list, i + 1, list[i].name)
         ELSE inspectTargetNamespaceLoop(list, i + 1, namespace)

inspectTargetNamespace(list) == inspectTargetNamespaceLoop(list, 1, "")

addNamespaceIfMissing(list, ns) ==
    LET namespaceObjectFound == \E i \in 1..Len(list) : list[i].kind = namespaceKind
    IN  IF ~namespaceObjectFound
        THEN Append(list, Obj(namespaceKind, ns, ""))
        ELSE list

ClusterScopedKinds ==
    {"Namespace", "Node", "PersistentVolume", "PodSecurityPolicy",
     "CertificateSigningRequest", "ClusterRoleBinding", "ClusterRole",
     "VolumeAttachment", "StorageClass", "CSIDriver", "CSINode",
     "ValidatingWebhookConfiguration", "MutatingWebhookConfiguration",
     "CustomResourceDefinition", "PriorityClass", "RuntimeClass"}

\* isResourceNamespaced with the case "ClusterRole" left out of the switch
isResourceNamespacedNoClusterRole(kind) ==
    kind \notin ClusterScopedKinds \ {"ClusterRole"}

isResourceNamespaced(kind) == kind \notin ClusterScopedKinds

fixTargetNamespaceObj(o, ns) ==
    LET o1 == IF o.kind = namespaceKind THEN [o EXCEPT !.name = ns] ELSE o
    IN  IF isResourceNamespaced(o1.kind) THEN [o1 EXCEPT !.namespace = ns] ELSE o1

fixTargetNamespace(list, ns) ==
    [i \in 1..Len(list) |-> fixTargetNamespaceObj(list[i], ns)]

(***************************************************************************)
(* RBAC                                                                    *)
(***************************************************************************)
\* fmt.Sprintf("%s-%s", targetNamespace, name)
namespacedName(ns, name) == ns \o "-" \o name

\* the first loop of fixRBAC: the ClusterRoles renamed in place
renameClusterRoles(list, ns) ==
    [i \in 1..Len(list) |->
        IF list[i].kind = clusterRoleKind
        THEN [list[i] EXCEPT !.name = namespacedName(ns, list[i].name)]
        ELSE list[i]]

\* the keys of the map renamedClusterRoles; the value of key k is namespacedName(ns, k)
renamedClusterRoles(list) ==
    {list[i].name : i \in {j \in 1..Len(list) : list[j].kind = clusterRoleKind}}

\* "ensure that namespaced subjects refers to targetNamespace"
fixSubjects(subjects, ns) ==
    [k \in 1..Len(subjects) |-> IF subjects[k] # "" THEN ns ELSE subjects[k]]

\* fixClusterRoleBinding without the rewriting of the RoleRef
fixClusterRoleBindingKeepRoleRef(o, renamed, ns) ==
    [o EXCEPT !.name = namespacedName(ns, o.name),
              !.subjects = fixSubjects(o.subjects, ns)]

fixClusterRoleBinding(o, renamed, ns) ==
    [o EXCEPT !.name = namespacedName(ns, o.name),
              !.subjects = fixSubjects(o.subjects, ns),
              !.roleRef = IF o.roleRef.name \in renamed
                          THEN [o.roleRef EXCEPT !.name = namespacedName(ns, o.roleRef.name)]
                          ELSE o.roleRef]

fixRoleBinding(o, renamed, ns) ==
    [o EXCEPT !.subjects = fixSubjects(o.subjects, ns)]

ConversionError == [kind |-> "conversion", names |-> <<>>]

\* fixRBAC: [objs, err]
fixRBAC(list, ns) ==
    LET renamed == renamedClusterRoles(list)
        roles   == renameClusterRoles(list, ns)
        bindingKinds == {clusterRoleBindingKind, roleBindingKind}
    IN  IF \E i \in 1..Len(roles) : roles[i].kind \in bindingKinds /\ ~roles[i].wellFormed
        THEN [objs |-> Nil, err |-> ConversionError]
        ELSE [objs |-> [i \in 1..Len(roles) |->
                          CASE roles[i].kind = clusterRoleBindingKind ->
                                   fixClusterRoleBinding(roles[i], renamed, ns)
                            [] roles[i].kind = roleBindingKind ->
                                   fixRoleBinding(roles[i], renamed, ns)
                            [] OTHER -> roles[i]],
              err |-> NoError]

(***************************************************************************)
(* Watching namespace                                                      *)
(***************************************************************************)
\* the --namespace arguments of the "manager" containers of the Deployments
\* of list, in the order the loops of inspectWatchNamespace visit them
RECURSIVE watchArgsOfContainers(_)
watchArgsOfContainers(cs) ==
    IF cs = <<>> THEN <<>>
    ELSE (IF Head(cs).name = controllerContainerName
          THEN SelectSeq(Head(cs).args, LAMBDA a : HasPrefix(a, namespaceArgPrefix))
          ELSE <<>>) \o watchArgsOfContainers(Tail(cs))

RECURSIVE watchArgs(_)
watchArgs(list) ==
    IF list = <<>> THEN <<>>
    ELSE (IF Head(list).kind = deploymentKind
          THEN watchArgsOfContainers(Head(list).containers)
          ELSE <<>>) \o watchArgs(Tail(list))

\* the innermost statements of inspectWatchNamespace over the arguments as[k..]
RECURSIVE inspectWatchArgs(_, _, _)
inspectWatchArgs(as, k, namespace) ==
    IF k > Len(as) THEN [namespace |-> namespace, err |-> NoError]
    ELSE LET n == TrimPrefix(as[k], namespaceArgPrefix)
         IN  IF namespace # "" /\ n # namespace
             THEN [namespace |-> "",
                   err |-> [kind |-> "inconsistent watching namespace", names |-> <<>>]]
             ELSE inspectWatchArgs(as, k + 1, n)

\* the objects up to and including the first Deployment that cannot be converted
RECURSIVE firstMalformedDeployment(_, _)
firstMalformedDeployment(list, i) ==
    IF i > Len(list) THEN 0
    ELSE IF list[i].kind = deploymentKind /\ ~list[i].wellFormed THEN i
    ELSE firstMalformedDeployment(list, i + 1)

\* inspectWatchNamespace: [namespace, err]
inspectWatchNamespace(list) ==
    LET bad == firstMalformedDeployment(list, 1)
        seen == IF bad = 0 THEN list ELSE SubSeq(list, 1, bad - 1)
        r == inspectWatchArgs(watchArgs(seen), 1, "")
    IN  IF r.err # NoError THEN r
        ELSE IF bad # 0 THEN [namespace |-> "", err |-> ConversionError]
        ELSE r

\* A slice of strings is [arr, len, panic]: the backing array from the slice's
\* first element on, the slice's length, and whether computing it panicked.
Slice(args) == [arr |-> args, len |-> Len(args), panic |-> FALSE]

\* remove(slice, i), i counted from 0 as in the code
remove(slice, i) ==
    IF i + 1 > slice.len
    THEN [slice EXCEPT !.panic = TRUE]    \* slice[i+1:]: slice bounds out of range
    ELSE [arr |-> [j \in 1..Len(slice.arr) |->
                      IF j >= i + 1 /\ j <= slice.len - 1
                      THEN slice.arr[j + 1] ELSE slice.arr[j]],
          len |-> slice.len - 1,
          panic |-> FALSE]

\* the loop "for k, a := range c.Args" of fixWatchNamespace, from index k on
\* (k counted from 0); the range expression is evaluated once, so the loop
\* visits len0 elements of the backing array whatever c.Args has become.
\* [args, found], args.panic set when the loop panicked
RECURSIVE fixArgsLoop(_, _, _, _, _)
fixArgsLoop(args, found, k, len0, w) ==
    IF k >= len0 THEN [args |-> args, found |-> found]
    ELSE LET a == args.arr[k + 1]
         IN  IF HasPrefix(a, namespaceArgPrefix)
             THEN IF w # ""
                  THEN IF k >= args.len     \* c.Args[k]: index out of range
                       THEN [args |-> [args EXCEPT !.panic = TRUE], found |-> TRUE]
                       ELSE fixArgsLoop([args EXCEPT !.arr[k + 1] = namespaceArgPrefix \o w],
                                        TRUE, k + 1, len0, w)
                  ELSE LET r == remove(args, k)
                       IN  IF r.panic THEN [args |-> r, found |-> TRUE]
                           ELSE fixArgsLoop(r, TRUE, k + 1, len0, w)
             ELSE fixArgsLoop(args, found, k + 1, len0, w)

\* fixContainer without the test of found: it appends the argument always
fixContainerAppendAlways(c, w) ==
    IF c.name # controllerContainerName THEN [container |-> c, panic |-> FALSE]
    ELSE LET r == fixArgsLoop(Slice(c.args), FALSE, 0, Len(c.args), w)
             kept == SubSeq(r.args.arr, 1, r.args.len)
         IN  IF r.args.panic THEN [container |-> c, panic |-> TRUE]
             ELSE [container |-> [c EXCEPT !.args = IF w # ""
                                                    THEN Append(kept, namespaceArgPrefix \o w)
                                                    ELSE kept],
                   panic |-> FALSE]

\* the body of fixWatchNamespace for one container: [container, panic]
fixContainer(c, w) ==
    IF c.name # controllerContainerName THEN [container |-> c, panic |-> FALSE]
    ELSE LET r == fixArgsLoop(Slice(c.args), FALSE, 0, Len(c.args), w)
             kept == SubSeq(r.args.arr, 1, r.args.len)
         IN  IF r.args.panic THEN [container |-> c, panic |-> TRUE]
             ELSE [container |-> [c EXCEPT !.args = IF ~r.found /\ w # ""
                                                    THEN Append(kept, namespaceArgPrefix \o w)
                                                    ELSE kept],
                   panic |-> FALSE]

\* fixWatchNamespace over list[i..], done the objects already rewritten:
\* [objs, err]
RECURSIVE fixWatchNamespaceLoop(_, _, _, _)
fixWatchNamespaceLoop(list, i, done, w) ==
    IF i > Len(list) THEN [objs |-> done, err |-> NoError]
    ELSE LET o == list[i]
         IN  IF o.kind # deploymentKind
             THEN fixWatchNamespaceLoop(list, i + 1, Append(done, o), w)
             ELSE IF ~o.wellFormed THEN [objs |-> Nil, err |-> ConversionError]
             ELSE LET cs == [j \in 1..Len(o.containers) |-> fixContainer(o.containers[j], w)]
                  IN  IF \E j \in 1..Len(cs) : cs[j].panic
                      THEN [objs |-> Nil, err |-> [kind |-> "panic", names |-> <<>>]]
                      ELSE fixWatchNamespaceLoop(list, i + 1,
                             Append(done, [o EXCEPT !.containers =
                                             [j \in 1..Len(cs) |-> cs[j].container]]), w)

fixWatchNamespace(list, w) == fixWatchNamespaceLoop(list, 1, <<>>, w)

(***************************************************************************)
(* Labels                                                                  *)
(***************************************************************************)
getLabels(name) ==
    [k \in {ClusterctlLabelName, ClusterctlProviderLabelName} |->
        IF k = ClusterctlLabelName THEN "" ELSE name]

\* addLabelsObj that keeps the value of a label the object has already
addLabelsObjKeepExisting(o, name) ==
    LET new == getLabels(name)
    IN  [o EXCEPT !.labels = [k \in DOMAIN o.labels \cup DOMAIN new |->
                                 IF k \in DOMAIN o.labels THEN o.labels[k] ELSE new[k]]]

addLabelsObj(o, name) ==
    LET new == getLabels(name)
    IN  [o EXCEPT !.labels = [k \in DOMAIN o.labels \cup DOMAIN new |->
                                 IF k \in DOMAIN new THEN new[k] ELSE o.labels[k]]]

addLabels(list, name) == [i \in 1..Len(list) |-> addLabelsObj(list[i], name)]

(***************************************************************************)
(* newComponents, one action per statement group, in the order of the code *)
(***************************************************************************)
\* the *components newComponents returns: nil, or the address of a components
NilComponents ==
    [nil |-> TRUE, provider |-> "", variables |-> <<>>, targetNamespace |-> "",
     watchingNamespace |-> "", objs |-> <<>>]

\* "return nil, err"
Fail(e) ==
    /\ pc' = "done"
    /\ err' = e
    /\ components' = NilComponents

Inputs == <<provider, rawyaml, config, manifest, override, watchingNamespace>>

\* the calls of newComponents made so far
Calls == <<run, firstCall>>

\* variables := inspectVariables(rawyaml)
InspectVariables ==
    /\ pc = "inspectVariables"
    /\ variables' = inspectVariables(rawyaml)
    /\ pc' = "replaceVariables"
    /\ UNCHANGED <<Inputs, Calls, yaml, objs, targetNamespace, defaultWatchingNamespace,
                   err, components, parsed, before>>

\* yaml, err := replaceVariables(rawyaml, variables, configVariablesClient)
ReplaceVariables ==
    /\ pc = "replaceVariables"
    /\ LET r == replaceVariables(rawyaml, variables, config)
       IN  /\ yaml' = r.yaml
           /\ IF r.err # NoError
              THEN Fail(r.err)
              ELSE pc' = "toUnstructured" /\ UNCHANGED <<err, components>>
    /\ UNCHANGED <<Inputs, Calls, variables, objs, targetNamespace, defaultWatchingNamespace,
                   parsed, before>>

\* manifest is [malformed, objs]: whether the text is no well-formed YAML, and
\* the documents it denotes otherwise
Manifest(docs) == [malformed |-> FALSE, objs |-> docs]
Malformed == [malformed |-> TRUE, objs |-> <<>>]

\* util.ToUnstructured: the documents of the text, or a parse error
ToUnstructured(text, m) ==
    IF m.malformed
    THEN [objs |-> Nil, err |-> [kind |-> "parse", names |-> <<>>]]
    ELSE [objs |-> m.objs, err |-> NoError]

\* objs, err := util.ToUnstructured(yaml)
Parse ==
    /\ pc = "toUnstructured"
    /\ LET r == ToUnstructured(yaml, manifest)
       IN  IF r.err # NoError
           THEN Fail(r.err) /\ UNCHANGED <<objs, parsed>>
           ELSE /\ objs' = r.objs
                /\ parsed' = r.objs
                /\ pc' = "inspectTargetNamespace"
                /\ UNCHANGED <<err, components>>
    /\ UNCHANGED <<Inputs, Calls, variables, yaml, targetNamespace, defaultWatchingNamespace,
                   before>>

\* resolveTargetNamespace with the embedded Namespace taking precedence over
\* the caller's namespace
resolveTargetNamespaceEmbeddedFirst(list, requested) ==
    LET r  == inspectTargetNamespace(list)
        ns == IF r.namespace # "" THEN r.namespace ELSE requested
    IN  IF r.err # NoError THEN [targetNamespace |-> requested, err |-> r.err]
        ELSE IF ns = ""
        THEN [targetNamespace |-> ns,
              err |-> [kind |-> "target namespace can't be defaulted", names |-> <<>>]]
        ELSE [targetNamespace |-> ns, err |-> NoError]

\* the target namespace newComponents settles on: [targetNamespace, err]
resolveTargetNamespace(list, requested) ==
    LET r  == inspectTargetNamespace(list)
        ns == IF requested = "" THEN r.namespace ELSE requested
    IN  IF r.err # NoError THEN [targetNamespace |-> requested, err |-> r.err]
        ELSE IF ns = ""
        THEN [targetNamespace |-> ns,
              err |-> [kind |-> "target namespace can't be defaulted", names |-> <<>>]]
        ELSE [targetNamespace |-> ns, err |-> NoError]

\* defaultTargetNamespace, err := inspectTargetNamespace(objs), and the
\* defaulting of targetNamespace
InspectTargetNamespace ==
    /\ pc = "inspectTargetNamespace"
    /\ LET r == resolveTargetNamespace(objs, targetNamespace)
       IN  /\ targetNamespace' = r.targetNamespace
           /\ IF r.err # NoError
              THEN Fail(r.err)
              ELSE pc' = "addNamespaceIfMissing" /\ UNCHANGED <<err, components>>
    /\ UNCHANGED <<Inputs, Calls, variables, yaml, objs, defaultWatchingNamespace, parsed,
                   before>>

\* objs = addNamespaceIfMissing(objs, targetNamespace)
AddNamespaceIfMissing ==
    /\ pc = "addNamespaceIfMissing"
    /\ before' = objs
    /\ objs' = addNamespaceIfMissing(objs, targetNamespace)
    /\ pc' = "fixTargetNamespace"
    /\ UNCHANGED <<Inputs, Calls, variables, yaml, targetNamespace, defaultWatchingNamespace,
                   err, components, parsed>>

\* objs = fixTargetNamespace(objs, targetNamespace)
FixTargetNamespace ==
    /\ pc = "fixTargetNamespace"
    /\ before' = objs
    /\ objs' = fixTargetNamespace(objs, targetNamespace)
    /\ pc' = "fixRBAC"
    /\ UNCHANGED <<Inputs, Calls, variables, yaml, targetNamespace, defaultWatchingNamespace,
                   err, components, parsed>>

\* objs, err = fixRBAC(objs, targetNamespace)
FixRBAC ==
    /\ pc = "fixRBAC"
    /\ before' = objs
    /\ LET r == fixRBAC(objs, targetNamespace)
       IN  /\ objs' = r.objs
           /\ IF r.err # NoError
              THEN Fail(r.err)
              ELSE pc' = "inspectWatchNamespace" /\ UNCHANGED <<err, components>>
    /\ UNCHANGED <<Inputs, Calls, variables, yaml, targetNamespace, defaultWatchingNamespace,
                   parsed>>

\* defaultWatchingNamespace, err := inspectWatchNamespace(objs), and the test
\* "if defaultWatchingNamespace != watchingNamespace"
InspectWatchNamespace ==
    /\ pc = "inspectWatchNamespace"
    /\ LET r == inspectWatchNamespace(objs)
       IN  /\ defaultWatchingNamespace' = r.namespace
           /\ IF r.err # NoError
              THEN Fail(r.err)
              ELSE /\ pc' = IF r.namespace # watchingNamespace
                            THEN "fixWatchNamespace" ELSE "addLabels"
                   /\ UNCHANGED <<err, components>>
    /\ UNCHANGED <<Inputs, Calls, variables, yaml, objs, targetNamespace, parsed, before>>

\* objs, err = fixWatchNamespace(objs, watchingNamespace)
FixWatchNamespace ==
    /\ pc = "fixWatchNamespace"
    /\ before' = objs
    /\ LET r == fixWatchNamespace(objs, watchingNamespace)
       IN  /\ objs' = r.objs
           /\ IF r.err # NoError
              THEN Fail(r.err)
              ELSE pc' = "addLabels" /\ UNCHANGED <<err, components>>
    /\ UNCHANGED <<Inputs, Calls, variables, yaml, targetNamespace, defaultWatchingNamespace,
                   parsed>>

\* objs = addLabels(objs, provider.Name()) and "return &components{...}, nil"
AddLabels ==
    /\ pc = "addLabels"
    /\ before' = objs
    /\ objs' = addLabels(objs, provider)
    /\ components' = [nil               |-> FALSE,
                      provider          |-> provider,
                      variables         |-> variables,
                      targetNamespace   |-> targetNamespace,
                      watchingNamespace |-> watchingNamespace,
                      objs              |-> objs']
    /\ pc' = "done"
    /\ UNCHANGED <<Inputs, Calls, variables, yaml, targetNamespace, defaultWatchingNamespace,
                   err, parsed>>

\* a second call of newComponents, with the same provider, target namespace
\* and watching namespace, on the documents of the components the first call
\* returned; the text of these documents has no variable left
Rerun ==
    /\ pc = "done"
    /\ run = 1
    /\ err = NoError
    /\ ~components.nil
    /\ ~HasPlaceholder(yaml)
    /\ run' = 2
    /\ firstCall' = components
    /\ rawyaml' = yaml
    /\ manifest' = Manifest(components.objs)
    /\ pc' = "inspectVariables"
    /\ variables' = <<>>
    /\ yaml' = Nil
    /\ objs' = <<>>
    /\ targetNamespace' = override
    /\ defaultWatchingNamespace' = ""
    /\ components' = NilComponents
    /\ parsed' = <<>>
    /\ before' = <<>>
    /\ UNCHANGED <<provider, config, override, watchingNamespace, err>>

Next ==
    \/ InspectVariables
    \/ ReplaceVariables
    \/ Parse
    \/ InspectTargetNamespace
    \/ AddNamespaceIfMissing
    \/ FixTargetNamespace
    \/ FixRBAC
    \/ InspectWatchNamespace
    \/ FixWatchNamespace
    \/ AddLabels
    \/ Rerun

\* the state of newComponents on entry of the first call
Entry ==
    /\ run = 1
    /\ firstCall = NilComponents
    /\ pc = "inspectVariables"
    /\ variables = <<>>
    /\ yaml = Nil
    /\ objs = <<>>
    /\ targetNamespace = override
    /\ defaultWatchingNamespace = ""
    /\ err = NoError
    /\ components = NilComponents
    /\ parsed = <<>>
    /\ before = <<>>

(***************************************************************************)
(* Inputs                                                                  *)
(***************************************************************************)
MaxObjs == 3      \* documents of a manifest
MaxChunks == 3    \* pieces a raw text is made of
MaxArgs == 3      \* arguments of a container

SeqsUpTo(S, n) == UNION {[1..k -> S] : k \in 0..n}

WithRoleRef(o, kind, name) == [o EXCEPT !.roleRef = [kind |-> kind, name |-> name]]
WithSubjects(o, subjects) == [o EXCEPT !.subjects = subjects]
WithLabels(o, labels) == [o EXCEPT !.labels = labels]
WithContainers(o, cs) == [o EXCEPT !.containers = cs]
NotConvertible(o) == [o EXCEPT !.wellFormed = FALSE]

Container(name, args) == [name |-> name, args |-> args]

\* the documents the manifests of Init are made of
Documents ==
    { Obj(namespaceKind, "", ""),
      Obj(namespaceKind, "ns0", ""),
      Obj(clusterRoleKind, "role", ""),
      Obj(clusterRoleKind, "capi-role", "other"),
      WithSubjects(WithRoleRef(Obj(clusterRoleBindingKind, "crb", ""),
                               clusterRoleKind, "role"), <<"other", "">>),
      WithRoleRef(Obj(clusterRoleBindingKind, "crb", "other"), clusterRoleKind, "edit"),
      NotConvertible(Obj(clusterRoleBindingKind, "crb", "")),
      WithSubjects(WithRoleRef(Obj(roleBindingKind, "rb", "other"),
                               clusterRoleKind, "role"), <<"other">>),
      WithRoleRef(Obj(roleBindingKind, "rb", ""), "Role", "role"),
      WithContainers(Obj(deploymentKind, "controller-manager", ""),
                     <<Container(controllerContainerName, <<"--leader-elect">>)>>),
      WithContainers(Obj(deploymentKind, "controller-manager", "ns0"),
                     <<Container(controllerContainerName,
                                 <<"--namespace=ops", "--leader-elect">>)>>),
      WithLabels(Obj("Service", "svc", "other"),
                 [k \in {"app", ClusterctlProviderLabelName} |-> "x"]) }

VariableNames == {"A", "B"}

\* a variables client that knows every variable, and one that knows none
Known == [n \in VariableNames |-> "v"]
Unknown == [n \in VariableNames |-> NotFound]

\* the manifests: up to MaxObjs documents, under a few texts and namespaces
Init ==
    /\ provider = "infra"
    /\ \E text \in {<<"kind: Namespace", Known>>, <<"name: ${A}", Known>>,
                    <<"name: ${A}", Unknown>>} :
          rawyaml = text[1] /\ config = text[2]
    /\ manifest \in {Manifest(docs) : docs \in SeqsUpTo(Documents, MaxObjs)}
                    \cup {Malformed}
    /\ override \in {"", "capi"}
    /\ watchingNamespace \in {"", "ops"}
    /\ Entry

Spec == Init /\ [][Next]_vars

\* the texts made of up to n of the pieces
RECURSIVE Texts(_, _)
Texts(pieces, n) ==
    IF n = 0 THEN {""}
    ELSE LET shorter == Texts(pieces, n - 1)
         IN  shorter \cup {t \o p : t \in shorter, p \in pieces}

Pieces == {"${A}", "${B}", "${ A }", "${", "}", "$", "A", "x"}
Values == {NotFound, "", "v", "${B}", "${ A }", "$0"}

\* the raw texts and the variables clients, under one manifest
InitVariables ==
    /\ provider = "infra"
    /\ rawyaml \in Texts(Pieces, MaxChunks)
    /\ config \in [VariableNames -> Values]
    /\ manifest = Manifest(
                    << WithContainers(Obj(deploymentKind, "controller-manager", ""),
                         <<Container(controllerContainerName, <<"--leader-elect">>)>>),
                       WithRoleRef(Obj(clusterRoleBindingKind, "crb", ""),
                                   clusterRoleKind, "role") >>)
    /\ override = "capi"
    /\ watchingNamespace = "ops"
    /\ Entry

SpecVariables == InitVariables /\ [][Next]_vars

Args == {"--namespace=a", "--namespace=b", "--namespace=", "--leader-elect"}

\* the Deployments: a container of any arguments, then possibly a second
\* container, and possibly a second Deployment
InitWatch ==
    /\ provider = "infra"
    /\ rawyaml = "kind: Deployment"
    /\ config = Known
    /\ \E first \in {controllerContainerName, "kube-rbac-proxy"} \X SeqsUpTo(Args, MaxArgs),
          second \in SeqsUpTo({controllerContainerName, "kube-rbac-proxy"}
                              \X SeqsUpTo(Args \ {"--namespace="}, 1), 1),
          other \in SeqsUpTo({<<"--namespace=a">>, <<"--leader-elect", "--namespace=b">>,
                              <<"--leader-elect">>}, 1) :
          manifest = Manifest(
            << WithContainers(Obj(deploymentKind, "controller-manager", ""),
                 <<Container(first[1], first[2])>>
                 \o [j \in 1..Len(second) |-> Container(second[j][1], second[j][2])]) >>
            \o [j \in 1..Len(other) |->
                  WithContainers(Obj(deploymentKind, "webhook", ""),
                                 <<Container(controllerContainerName, other[j])>>)])
    /\ override = "capi"
    /\ watchingNamespace \in {"", "a", "ops"}
    /\ Entry

SpecWatch == InitWatch /\ [][Next]_vars

(***************************************************************************)
(* Properties                                                              *)
(***************************************************************************)
\* newComponents has returned a bundle
Succeeded == pc = "done" /\ err = NoError /\ ~components.nil
\* the positions of the objects of kind Namespace of a list
NamespaceObjects(list) == {i \in 1..Len(list) : list[i].kind = "Namespace"}
\* newComponents did not fail before or in the parser
ParsedOk == err.kind \notin {"missing variables", "parse"}

\* C1: every bundle newComponents returns holds exactly one object of kind
\* Namespace, named as the bundle's target namespace.
C1_ExactlyOneNamespace ==
    Succeeded =>
        /\ Cardinality(NamespaceObjects(components.objs)) = 1
        /\ \A i \in NamespaceObjects(components.objs) :
              components.objs[i].name = components.targetNamespace

\* C2: the target namespace is the caller's override when there is one, else
\* the name of the single embedded Namespace; with neither, newComponents fails
\* with "target namespace can't be defaulted" and returns no bundle.
C2_TargetNamespaceDerivation ==
    /\ Succeeded /\ override # "" => components.targetNamespace = override
    /\ Succeeded /\ override = "" /\ Cardinality(NamespaceObjects(parsed)) = 1 =>
          \A i \in NamespaceObjects(parsed) : components.targetNamespace = parsed[i].name
    /\ Succeeded => components.targetNamespace # ""
    /\ pc = "done" /\ ParsedOk /\ override = "" /\ NamespaceObjects(manifest.objs) = {} =>
          /\ err.kind = "target namespace can't be defaulted"
          /\ components.nil

\* C2 witness: a bundle whose target namespace is the name of the embedded
\* Namespace, no override given.
C2_Witness ==
    /\ Succeeded /\ override = ""
    /\ \E i \in 1..Len(parsed) : parsed[i].kind = "Namespace" /\ parsed[i].name = "ns0"
    /\ components.targetNamespace = "ns0"

\* C3: a manifest of two or more Namespace objects makes newComponents fail
\* with the error of inspectTargetNamespace and return no bundle, whatever the
\* override and the names.
C3_TwoNamespacesFail ==
    pc = "done" /\ ParsedOk /\ Cardinality(NamespaceObjects(manifest.objs)) >= 2 =>
        /\ err.kind = "more than one Namespace"
        /\ components.nil

\* the kinds the claim C4 lists as cluster-scoped
C4_ClusterScoped ==
    {"Namespace", "Node", "PersistentVolume", "PodSecurityPolicy",
     "CertificateSigningRequest", "ClusterRole", "ClusterRoleBinding",
     "VolumeAttachment", "StorageClass", "CSIDriver", "CSINode",
     "ValidatingWebhookConfiguration", "MutatingWebhookConfiguration",
     "CustomResourceDefinition", "PriorityClass", "RuntimeClass"}

\* C4: in a bundle, an object of a kind outside the cluster-scoped table is in
\* the target namespace, and an object of a kind of the table has the
\* namespace field it had when parsed.
C4_NamespaceByKind ==
    Succeeded =>
        /\ Len(components.objs) >= Len(parsed)
        /\ \A i \in 1..Len(components.objs) :
              LET o == components.objs[i]
              IN  IF o.kind \notin C4_ClusterScoped
                  THEN o.namespace = components.targetNamespace
                  ELSE i <= Len(parsed) => o.namespace = parsed[i].namespace

\* C4 witness: a bundle with a cluster-scoped object that kept a namespace
\* field other than the target namespace, and a namespaced object moved there.
C4_Witness ==
    /\ Succeeded
    /\ \E i \in 1..Len(parsed) :
          /\ parsed[i].kind = "ClusterRole" /\ parsed[i].namespace = "other"
          /\ components.objs[i].namespace = "other"
    /\ \E i \in 1..Len(parsed) :
          /\ parsed[i].kind = "Service" /\ parsed[i].namespace = "other"
          /\ components.objs[i].namespace = components.targetNamespace

\* replaceVariables has returned
ReplaceVariablesDone == pc \notin {"inspectVariables", "replaceVariables"}
\* the names of the placeholders of the raw text
Scanned == Range(FindAllVariables(rawyaml, 1))
\* those of them the variables client has no value for
Unresolved == {n \in Scanned : Get(config, n) = NotFound}

\* C5: with a scanned name that has no value, replaceVariables fails and
\* returns no text, and its error names each unresolved name once, in
\* ascending byte order.
C5_MissingVariables ==
    ReplaceVariablesDone /\ Unresolved # {} =>
        /\ pc = "done"
        /\ err.kind = "missing variables"
        /\ yaml = Nil
        /\ components.nil
        /\ Range(err.names) = Unresolved
        /\ \A k \in 1..(Len(err.names) - 1) : StrLess(err.names[k], err.names[k + 1])

\* C5 witness: two unresolved names, the later one first and twice in the text.
C5_Witness ==
    /\ pc = "done"
    /\ rawyaml = "${B}${A}${B}"
    /\ err.kind = "missing variables"
    /\ err.names = <<"A", "B">>

\* one pass over the text from position i on that puts, for every placeholder,
\* the value of its name as it is
RECURSIVE SubstituteOnce(_, _, _)
SubstituteOnce(text, i, cfg) ==
    IF i > Len(text) THEN ""
    ELSE LET m == MatchVariableAt(text, i)
         IN  IF m = NoMatch THEN CharAt(text, i) \o SubstituteOnce(text, i + 1, cfg)
             ELSE Get(cfg, m.name) \o SubstituteOnce(text, m.to, cfg)

\* C6: with a value for every scanned name, replaceVariables succeeds, the
\* text it returns holds no placeholder, and it is the raw text with each
\* placeholder replaced by its value as it is, inserted values not substituted
\* again.
C6_NoPlaceholderLeft ==
    ReplaceVariablesDone /\ Unresolved = {} =>
        /\ err.kind # "missing variables"
        /\ yaml # Nil
        /\ ~HasPlaceholder(yaml)
        /\ yaml = SubstituteOnce(rawyaml, 1, config)

\* the names of the objects of kind ClusterRole of a list
ClusterRoleNames(list) ==
    {list[i].name : i \in {j \in 1..Len(list) : list[j].kind = "ClusterRole"}}

\* fixRBAC has just returned without error
FixRBACDone == pc = "inspectWatchNamespace"

\* C7: fixRBAC with target namespace ns renames every ClusterRole X to ns-X
\* and every ClusterRoleBinding Y to ns-Y, and turns the roleRef name X of a
\* ClusterRoleBinding into ns-X when X was the name of a ClusterRole of the
\* list, leaving any other roleRef name as it was.
C7_FixRBAC ==
    FixRBACDone =>
        /\ Len(objs) = Len(before)
        /\ \A i \in 1..Len(before) :
              LET o == objs[i]
                  b == before[i]
              IN  /\ o.kind = b.kind
                  /\ b.kind \in {"ClusterRole", "ClusterRoleBinding"} =>
                        o.name = targetNamespace \o "-" \o b.name
                  /\ b.kind = "ClusterRoleBinding" =>
                        o.roleRef.name =
                            IF b.roleRef.name \in ClusterRoleNames(before)
                            THEN targetNamespace \o "-" \o b.roleRef.name
                            ELSE b.roleRef.name

\* C7 witness: fixRBAC rewrote the roleRef of one ClusterRoleBinding and left
\* the roleRef of another, which names no ClusterRole of the list.
C7_Witness ==
    /\ FixRBACDone
    /\ targetNamespace = "capi"
    /\ \E i \in 1..Len(before) :
          /\ before[i].kind = "ClusterRoleBinding" /\ before[i].roleRef.name = "role"
          /\ objs[i].roleRef.name = "capi-role" /\ objs[i].name = "capi-crb"
    /\ \E i \in 1..Len(before) :
          /\ before[i].kind = "ClusterRoleBinding" /\ before[i].roleRef.name = "edit"
          /\ objs[i].roleRef.name = "edit"
    /\ \E i \in 1..Len(before) :
          before[i].kind = "ClusterRole" /\ objs[i].name = "capi-role"

\* C8: in a bundle, every ClusterRoleBinding or RoleBinding whose roleRef named
\* a ClusterRole of the manifest names it by its prefixed name.
C8_BindingsFollowRename ==
    Succeeded =>
        \A i \in 1..Len(parsed) :
            (/\ parsed[i].kind \in {"ClusterRoleBinding", "RoleBinding"}
             /\ parsed[i].roleRef.kind = "ClusterRole"
             /\ parsed[i].roleRef.name \in ClusterRoleNames(parsed))
            => components.objs[i].roleRef.name =
                   components.targetNamespace \o "-" \o parsed[i].roleRef.name

\* fixWatchNamespace was called, and has returned or panicked
FixWatchNamespaceRan ==
    /\ defaultWatchingNamespace # watchingNamespace
    /\ pc = "addLabels" \/ (pc = "done" /\ err.kind \in {"panic", "conversion"})

IsWatchArg(a) == HasPrefix(a, "--namespace=")

\* the first position of as that holds a --namespace argument, 0 when none does
FirstWatchArg(as) ==
    IF \E k \in 1..Len(as) : IsWatchArg(as[k])
    THEN CHOOSE k \in 1..Len(as) : IsWatchArg(as[k]) /\ \A j \in 1..(k - 1) : ~IsWatchArg(as[j])
    ELSE 0

\* every container of every object of objs relates to the one of before as R says
\* for the "manager" containers of the Deployments, and is the same otherwise
ContainersRewritten(R(_, _)) ==
    /\ Len(objs) = Len(before)
    /\ \A i \in 1..Len(before) :
          /\ Len(objs[i].containers) = Len(before[i].containers)
          /\ \A j \in 1..Len(before[i].containers) :
                LET c == objs[i].containers[j]
                    b == before[i].containers[j]
                IN  /\ c.name = b.name
                    /\ IF before[i].kind = "Deployment" /\ b.name = "manager"
                       THEN R(b.args, c.args)
                       ELSE c.args = b.args

\* C9: fixWatchNamespace with the empty watching namespace leaves the "manager"
\* containers with their arguments other than --namespace, in their order.
C9_Removed(old, new) == new = SelectSeq(old, LAMBDA a : ~IsWatchArg(a))

C9_WatchArgRemoved ==
    FixWatchNamespaceRan /\ watchingNamespace = "" =>
        /\ pc = "addLabels"
        /\ ContainersRewritten(C9_Removed)

\* C10 as stated: with a watching namespace w, the first --namespace argument of
\* a "manager" container is replaced by --namespace=w and nothing else changes;
\* without such an argument, --namespace=w is appended.
C10_FirstReplaced(old, new) ==
    new = IF FirstWatchArg(old) = 0
          THEN Append(old, "--namespace=" \o watchingNamespace)
          ELSE [old EXCEPT ![FirstWatchArg(old)] = "--namespace=" \o watchingNamespace]

C10_FirstWatchArgReplaced ==
    FixWatchNamespaceRan /\ watchingNamespace # "" =>
        /\ pc = "addLabels"
        /\ ContainersRewritten(C10_FirstReplaced)

\* C10 amended: with a watching namespace w, every --namespace argument of a
\* "manager" container is replaced in place by --namespace=w, the other
\* arguments and the number of arguments unchanged; without such an argument,
\* --namespace=w is appended.  Other containers are not changed.
C10_AllReplaced(old, new) ==
    new = IF FirstWatchArg(old) = 0
          THEN Append(old, "--namespace=" \o watchingNamespace)
          ELSE [k \in 1..Len(old) |->
                   IF IsWatchArg(old[k]) THEN "--namespace=" \o watchingNamespace
                   ELSE old[k]]

C10_EveryWatchArgReplaced ==
    FixWatchNamespaceRan /\ watchingNamespace # "" =>
        /\ pc = "addLabels"
        /\ ContainersRewritten(C10_AllReplaced)

\* C10 witness: fixWatchNamespace replaced two --namespace arguments of one
\* container, and appended the argument to a container that had none.
C10_Witness ==
    /\ FixWatchNamespaceRan /\ pc = "addLabels" /\ watchingNamespace = "ops"
    /\ Len(before) = 3 /\ Len(before[1].containers) = 1
    /\ before[1].containers[1].args = <<"--namespace=a", "--leader-elect", "--namespace=a">>
    /\ objs[1].containers[1].args = <<"--namespace=ops", "--leader-elect", "--namespace=ops">>
    /\ before[2].kind = "Deployment"
    /\ before[2].containers[1].args = <<"--leader-elect">>
    /\ objs[2].containers[1].args = <<"--leader-elect", "--namespace=ops">>

\* inspectWatchNamespace has just returned: with a value, or with its own error
InspectWatchNamespaceDone ==
    \/ pc = "fixWatchNamespace"
    \/ pc = "addLabels" /\ defaultWatchingNamespace = watchingNamespace
    \/ pc = "done" /\ err.kind = "inconsistent watching namespace"

\* the arguments of the "manager" containers of the Deployments of a list
ManagerArgs(list) ==
    UNION {UNION {Range(list[i].containers[j].args) :
                     j \in {n \in 1..Len(list[i].containers) :
                               list[i].containers[n].name = "manager"}} :
              i \in {n \in 1..Len(list) : list[n].kind = "Deployment"}}

\* the values of the --namespace arguments among them
WatchValues(list) ==
    {SubSeq(a, Len("--namespace=") + 1, Len(a)) :
        a \in {x \in ManagerArgs(list) : IsWatchArg(x)}}

\* C11: inspectWatchNamespace fails when the --namespace arguments of the
\* "manager" containers have two different values, the empty value included;
\* otherwise it returns the one value, or "" when there is no such argument.
C11_InconsistentValuesRejected ==
    InspectWatchNamespaceDone =>
        IF Cardinality(WatchValues(objs)) >= 2
        THEN pc = "done" /\ err.kind = "inconsistent watching namespace"
        ELSE /\ pc # "done"
             /\ \A v \in WatchValues(objs) : defaultWatchingNamespace = v
             /\ WatchValues(objs) = {} => defaultWatchingNamespace = ""

\* the keys of the two provenance labels
C12_Marker == "clusterctl.cluster.x-k8s.io"
C12_Provider == "clusterctl.cluster.x-k8s.io/provider"

\* C12: in a bundle every object, the added Namespace included, has the marker
\* label and the provider label with the provider's name, whatever value the
\* object had under these keys, and every other label it had when parsed.
C12_ProvenanceLabels ==
    Succeeded =>
        /\ Len(components.objs) >= Len(parsed)
        /\ \A i \in 1..Len(components.objs) :
              LET labels == components.objs[i].labels
              IN  /\ {C12_Marker, C12_Provider} \subseteq DOMAIN labels
                  /\ labels[C12_Marker] = ""
                  /\ labels[C12_Provider] = provider
                  /\ i <= Len(parsed) =>
                        /\ DOMAIN labels = DOMAIN parsed[i].labels \cup {C12_Marker, C12_Provider}
                        /\ \A k \in DOMAIN parsed[i].labels \ {C12_Marker, C12_Provider} :
                              labels[k] = parsed[i].labels[k]

\* C12 witness: a bundle with an added Namespace and an object whose provider
\* label was overwritten and whose other label was kept.
C12_Witness ==
    /\ Succeeded
    /\ Len(components.objs) > Len(parsed)
    /\ \E i \in 1..Len(parsed) :
          /\ C12_Provider \in DOMAIN parsed[i].labels
          /\ parsed[i].labels[C12_Provider] = "x"
          /\ components.objs[i].labels[C12_Provider] = "infra"
          /\ components.objs[i].labels["app"] = "x"

\* the second call of newComponents has returned
RerunDone == run = 2 /\ pc = "done"

\* C13: a second call on the documents of the components of the first call
\* returns components identical to them: the same objects and the same
\* provider, target namespace and watching namespace.
C13_RerunIsIdentity ==
    RerunDone =>
        /\ Succeeded
        /\ components.objs = firstCall.objs
        /\ components.provider = firstCall.provider
        /\ components.targetNamespace = firstCall.targetNamespace
        /\ components.watchingNamespace = firstCall.watchingNamespace

\* the identity of an object
Identity(o) == <<o.kind, o.namespace, o.name>>

\* no two objects of a list share an identity
DistinctIdentities(list) ==
    \A i, j \in 1..Len(list) : Identity(list[i]) = Identity(list[j]) => i = j

\* C14: when the parsed objects have pairwise distinct identities (kind,
\* namespace, name), so have the objects of the components returned.
C14_DistinctIdentities ==
    (Succeeded /\ DistinctIdentities(parsed)) => DistinctIdentities(components.objs)

\* the arguments of a "manager" container agree with the watching namespace w
AgreesWithWatchingNamespace(args, w) ==
    IF w # ""
    THEN /\ \E k \in 1..Len(args) : args[k] = "--namespace=" \o w
         /\ \A k \in 1..Len(args) : IsWatchArg(args[k]) => args[k] = "--namespace=" \o w
    ELSE \A k \in 1..Len(args) : ~IsWatchArg(args[k])

\* C15: in the components returned, every "manager" container of every
\* Deployment agrees with the watching namespace of the components, whether
\* fixWatchNamespace ran or was skipped.
C15_DeploymentsAgreeWithWatchingNamespace ==
    Succeeded =>
        \A i \in 1..Len(components.objs) :
            components.objs[i].kind = "Deployment" =>
                \A j \in 1..Len(components.objs[i].containers) :
                    components.objs[i].containers[j].name = "manager" =>
                        AgreesWithWatchingNamespace(components.objs[i].containers[j].args,
                                                    components.watchingNamespace)

\* C16: fixWatchNamespace, called with an empty watching namespace on objects
\* that passed inspectWatchNamespace, returns without a runtime panic.
C16_RemoveLoopNeverPanics ==
    (FixWatchNamespaceRan /\ watchingNamespace = "") => err.kind # "panic"

====
